---- MODULE Spec2Model ----
(***************************************************************************)
(* Model of devdox-ai-encryption:                                          *)
(*   encryption_src/fernet/service.py        FernetEncryptionHelper        *)
(*   encryption_src/test_doubles/fake_encryption.py  FakeEncryptionHelper  *)
(*                                                                         *)
(* A Python str is a sequence of code points, a Python bytes object a      *)
(* sequence of integers 0..255.  str.encode / bytes.decode (UTF-8) and     *)
(* base64.urlsafe_b64encode / urlsafe_b64decode are computed as CPython    *)
(* computes them.  The primitives of the cryptography package cannot be    *)
(* evaluated by a model checker and are idealised:                         *)
(*   PBKDF2-HMAC-SHA256  a deterministic, collision-free map to 32 bytes   *)
(*   AES-128-CBC         CBC chaining over a keyed byte permutation        *)
(*   HMAC-SHA256         unforgeable: a tag verifies only for a            *)
(*                       (key, message) pair that the key holder signed    *)
(*   os.urandom(16)      a value never drawn before                        *)
(***************************************************************************)
EXTENDS Integers, Sequences, FiniteSets, TLC

\* ------------------------------------------------------------- bounds
MaxTokens == 1      \* tokens a helper issues in one behaviour
MaxTime == 1        \* seconds the clock may advance
StartTime == 1700000000  \* time.time() when the behaviour starts
LongLen == 33       \* length of the "far more than one block" plaintext
TamperStride == 16  \* one position in so many of a token is altered
MaxFakeCalls == 2   \* length the fake's call history grows to
MaxFakeTokens == 2  \* tokens one FakeEncryptionHelper issues

\* ------------------------------------------------------ results of calls
Ok(v) == [ok |-> TRUE, val |-> v]
Err(e) == [ok |-> FALSE, err |-> e]

\* ------------------------------------------------------------ sequences
Rep(x, n) == [i \in 1..n |-> x]
Slice(s, a, b) == IF b < a THEN << >> ELSE SubSeq(s, a, b)

\* --------------------------------------------------- str.encode (UTF-8)
IsSurrogate(cp) == cp >= 55296 /\ cp <= 57343

UTF8Char(cp) ==
  IF cp < 128 THEN <<cp>>
  ELSE IF cp < 2048 THEN <<192 + (cp \div 64), 128 + (cp % 64)>>
  ELSE IF cp < 65536
    THEN <<224 + (cp \div 4096), 128 + ((cp \div 64) % 64), 128 + (cp % 64)>>
  ELSE <<240 + (cp \div 262144), 128 + ((cp \div 4096) % 64),
         128 + ((cp \div 64) % 64), 128 + (cp % 64)>>

\* the UTF-8 bytes of the characters of s, one after the other
RECURSIVE UTF8Bytes(_)
UTF8Bytes(s) ==
  IF Len(s) = 0 THEN << >>
  ELSE IF Len(s) = 1 THEN UTF8Char(s[1])
  ELSE UTF8Bytes(SubSeq(s, 1, Len(s) \div 2))
       \o UTF8Bytes(SubSeq(s, (Len(s) \div 2) + 1, Len(s)))

\* str.encode(): strict UTF-8; a lone surrogate raises UnicodeEncodeError
StrEncode(s) ==
  IF \E i \in DOMAIN s : IsSurrogate(s[i])
  THEN Err("UnicodeEncodeError")
  ELSE Ok(UTF8Bytes(s))

\* --------------------------------------------------- bytes.decode (UTF-8)
IsCont(b) == b >= 128 /\ b <= 191

\* the code point and width of the character starting at b[i], width 0 when
\* the bytes there are not well-formed UTF-8
UTF8At(b, i) ==
  LET n == Len(b)
      b0 == b[i]
  IN IF b0 < 128 THEN [w |-> 1, cp |-> b0]
     ELSE IF b0 >= 194 /\ b0 <= 223 /\ i + 1 <= n /\ IsCont(b[i + 1])
       THEN [w |-> 2, cp |-> (b0 - 192) * 64 + (b[i + 1] - 128)]
     ELSE IF b0 >= 224 /\ b0 <= 239 /\ i + 2 <= n
             /\ IsCont(b[i + 1]) /\ IsCont(b[i + 2])
       THEN LET cp == (b0 - 224) * 4096 + (b[i + 1] - 128) * 64 + (b[i + 2] - 128)
            IN IF cp < 2048 \/ IsSurrogate(cp) THEN [w |-> 0, cp |-> 0]
               ELSE [w |-> 3, cp |-> cp]
     ELSE IF b0 >= 240 /\ b0 <= 244 /\ i + 3 <= n
             /\ IsCont(b[i + 1]) /\ IsCont(b[i + 2]) /\ IsCont(b[i + 3])
       THEN LET cp == (b0 - 240) * 262144 + (b[i + 1] - 128) * 4096
                      + (b[i + 2] - 128) * 64 + (b[i + 3] - 128)
            IN IF cp < 65536 \/ cp > 1114111 THEN [w |-> 0, cp |-> 0]
               ELSE [w |-> 4, cp |-> cp]
     ELSE [w |-> 0, cp |-> 0]

\* the characters start at the bytes that are no continuation bytes; the
\* bytes are well formed when each character ends where the next one starts
UTF8Chars(b, starts) ==
  IF \E j \in DOMAIN starts :
       UTF8At(b, starts[j]).w
         # (IF j < Len(starts) THEN starts[j + 1] ELSE Len(b) + 1) - starts[j]
  THEN Err("UnicodeDecodeError")
  ELSE Ok([j \in DOMAIN starts |-> UTF8At(b, starts[j]).cp])

\* bytes.decode(): strict UTF-8, UnicodeDecodeError on malformed bytes
BytesDecode(b) ==
  IF Len(b) > 0 /\ IsCont(b[1]) THEN Err("UnicodeDecodeError")
  ELSE UTF8Chars(b, SelectSeq([i \in 1..Len(b) |-> i], LAMBDA i : ~IsCont(b[i])))

\* ------------------------------------------------------------- base64
PAD == 61     \* "="

\* binascii's table_a2b_base64: the 6-bit value of a byte, 64 when the byte
\* is not of the standard alphabet
B64Value(c) ==
  IF c >= 65 /\ c <= 90 THEN c - 65
  ELSE IF c >= 97 /\ c <= 122 THEN c - 71
  ELSE IF c >= 48 /\ c <= 57 THEN c + 4
  ELSE IF c = 43 THEN 62
  ELSE IF c = 47 THEN 63
  ELSE 64

\* table_b2a_base64
B64Char(v) ==
  IF v < 26 THEN v + 65
  ELSE IF v < 52 THEN v + 71
  ELSE IF v < 62 THEN v - 4
  ELSE IF v = 62 THEN 43
  ELSE 47

\* bytes.translate(_urlsafe_decode_translation): "-" to "+", "_" to "/"
UrlsafeToStd(c) == IF c = 45 THEN 43 ELSE IF c = 95 THEN 47 ELSE c
\* bytes.translate(_urlsafe_encode_translation): "+" to "-", "/" to "_"
StdToUrlsafe(c) == IF c = 43 THEN 45 ELSE IF c = 47 THEN 95 ELSE c

IsB64Data(c) == B64Value(c) < 64
IsB64DataOrPad(c) == c = PAD \/ IsB64Data(c)
NotPad(c) == c # PAD

\* the bytes that the data characters d hold: 3 for each full quad, 1 or 2
\* for a last quad of 2 or 3 characters
A2BBytes(d) ==
  LET q == Len(d) % 4
      n == 3 * (Len(d) \div 4) + (IF q = 2 THEN 1 ELSE IF q = 3 THEN 2 ELSE 0)
  IN [j \in 1..n |->
        LET g == 4 * ((j - 1) \div 3)
            k == (j - 1) % 3
        IN IF k = 0 THEN B64Value(d[g + 1]) * 4 + (B64Value(d[g + 2]) \div 16)
           ELSE IF k = 1
             THEN (B64Value(d[g + 2]) % 16) * 16 + (B64Value(d[g + 3]) \div 4)
           ELSE (B64Value(d[g + 3]) % 4) * 64 + B64Value(d[g + 4])]

\* the positions of e at which the loop stops: an "=" that completes the
\* padding of a quad holding 2 or 3 data characters
A2BStops(e) ==
  {p \in {r \in DOMAIN e : e[r] = PAD} :
     LET quad_pos == Len(SelectSeq(Slice(e, 1, p - 1), NotPad)) % 4
     IN \/ quad_pos = 3
        \/ quad_pos = 2 /\ p > 1 /\ e[p - 1] = PAD}

A2BFinish(d, done) ==
  IF ~done /\ Len(d) % 4 # 0 THEN Err("binascii.Error") ELSE Ok(A2BBytes(d))

A2BCut(e, stops) ==
  IF stops = {}
  THEN A2BFinish(SelectSeq(e, NotPad), FALSE)
  ELSE A2BFinish(SelectSeq(
         Slice(e, 1, (CHOOSE p \in stops : \A r \in stops : p <= r) - 1),
         NotPad), TRUE)

A2BScan(e) == A2BCut(e, A2BStops(e))

\* binascii.a2b_base64(s), strict_mode false.  Its loop discards every byte
\* that is neither of the alphabet nor "=", counts the data characters read
\* (quad_pos, modulo 4), and stops at the "=" that completes the padding of a
\* quad holding 2 or 3 data characters ("=" elsewhere is discarded).  Input
\* that ends inside a quad without that padding raises binascii.Error.
a2b_base64(s) == A2BScan(SelectSeq(s, IsB64DataOrPad))

\* base64.urlsafe_b64decode(s) of a bytes object
urlsafe_b64decode(s) == a2b_base64([i \in DOMAIN s |-> UrlsafeToStd(s[i])])

\* the j-th character binascii.b2a_base64 writes for the bytes b
B2AChar(b, j) ==
  LET n == Len(b)
      g == 3 * ((j - 1) \div 4)
      k == (j - 1) % 4
      At(i) == IF g + i <= n THEN b[g + i] ELSE 0
  IN IF k = 0 THEN B64Char(At(1) \div 4)
     ELSE IF k = 1 THEN B64Char((At(1) % 4) * 16 + (At(2) \div 16))
     ELSE IF k = 2
       THEN IF g + 2 > n THEN PAD
            ELSE B64Char((At(2) % 16) * 4 + (At(3) \div 64))
     ELSE IF g + 3 > n THEN PAD ELSE B64Char(At(3) % 64)

b2a_base64(b) == [j \in 1..(4 * ((Len(b) + 2) \div 3)) |-> B2AChar(b, j)]

\* base64.urlsafe_b64encode(b)
urlsafe_b64encode(b) ==
  LET std == b2a_base64(b) IN [i \in DOMAIN std |-> StdToUrlsafe(std[i])]

\* ------------------------------------------- library primitives (idealised)
BLOCK == 16         \* algorithms.AES.block_size // 8
MAC_LEN == 32       \* length of an HMAC-SHA256 tag
KEY_LEN == 32       \* length of a decoded Fernet key
VERSION == 128      \* the version byte 0x80 of a Fernet token

AddBytes(a, b) == [i \in DOMAIN a |-> (a[i] + b[i]) % 256]
SubBytes(a, b) == [i \in DOMAIN a |-> (a[i] - b[i] + 256) % 256]

RECURSIVE Shr8(_, _)
Shr8(n, e) == IF e = 0 THEN n ELSE Shr8(n \div 256, e - 1)

\* int.to_bytes(length, byteorder="big")
ToBytesBE(n, length) == [i \in 1..length |-> Shr8(n, length - i) % 256]

\* os.urandom(16), the k-th draw: draws never repeat
urandom(k) == [i \in 1..BLOCK |-> (41 * k + 7 * i) % 256]

\* PBKDF2HMAC(SHA256, length, salt, iterations).derive(password): a
\* deterministic map that is injective on the secrets and salts of the model
\* (salts of at most 16 bytes, passwords that differ in length or in their
\* first 8 bytes)
PBKDF2HMAC(password, salt, length, iterations) ==
  LET src == <<iterations % 251, Len(password) % 256, Len(salt) % 256>>
             \o salt \o password
  IN [i \in 1..length |-> IF i <= Len(src) THEN src[i] ELSE 0]

\* HMAC(key, SHA256).update(msg).finalize(): the tag's bytes
HMAC(key, msg) ==
  [i \in 1..MAC_LEN |->
     (key[((i - 1) % Len(key)) + 1] + Len(msg) + 3 * i
      + (IF Len(msg) = 0 THEN 0 ELSE msg[((i - 1) % Len(msg)) + 1])) % 256]

\* HMAC.verify(tag): a tag verifies only for a pair that was signed
HMACVerify(signedPairs, key, msg, tag) ==
  <<key, msg>> \in signedPairs /\ tag = HMAC(key, msg)

\* padding.PKCS7(128).padder()
PKCS7Pad(data) ==
  LET n == BLOCK - (Len(data) % BLOCK) IN data \o Rep(n, n)

\* padding.PKCS7(128).unpadder(): finalize raises ValueError on bad padding
PKCS7Unpad(data) ==
  LET len == Len(data)
  IN IF len = 0 \/ len % BLOCK # 0 THEN Err("ValueError")
     ELSE LET n == data[len]
          IN IF n < 1 \/ n > BLOCK \/ \E i \in (len - n + 1)..len : data[i] # n
             THEN Err("ValueError")
             ELSE Ok(Slice(data, 1, len - n))

\* Cipher(AES(key), CBC(iv)).encryptor(): each block is chained to the
\* previous ciphertext block and sent through a keyed permutation
RECURSIVE CBCEncrypt(_, _, _)
CBCEncrypt(key, prev, padded) ==
  IF Len(padded) = 0 THEN << >>
  ELSE LET c == AddBytes(AddBytes(Slice(padded, 1, BLOCK), prev), key)
       IN c \o CBCEncrypt(key, c, Slice(padded, BLOCK + 1, Len(padded)))

\* Cipher(AES(key), CBC(iv)).decryptor(): finalize raises ValueError when the
\* ciphertext is not a whole number of blocks
RECURSIVE CBCBlocks(_, _, _)
CBCBlocks(key, prev, ct) ==
  IF Len(ct) = 0 THEN << >>
  ELSE LET c == Slice(ct, 1, BLOCK)
       IN SubBytes(SubBytes(c, key), prev)
          \o CBCBlocks(key, c, Slice(ct, BLOCK + 1, Len(ct)))

CBCDecrypt(key, iv, ct) ==
  IF Len(ct) % BLOCK # 0 THEN Err("ValueError") ELSE Ok(CBCBlocks(key, iv, ct))

\* ------------------------------------------------ cryptography.fernet.Fernet
\* Fernet(key): the key is url-safe base64 of 32 bytes, else ValueError
Fernet(key) ==
  IF \E i \in DOMAIN key : key[i] > 127 THEN Err("ValueError")
  ELSE LET k == urlsafe_b64decode(key)
       IN IF ~k.ok \/ Len(k.val) # KEY_LEN THEN Err("ValueError")
          ELSE Ok([signing_key |-> Slice(k.val, 1, 16),
                   encryption_key |-> Slice(k.val, 17, 32)])

\* the bytes Fernet signs: version, timestamp, IV, ciphertext
BasicParts(f, data, current_time, iv) ==
  <<VERSION>> \o ToBytesBE(current_time, 8) \o iv
    \o CBCEncrypt(f.encryption_key, iv, PKCS7Pad(data))

\* Fernet.encrypt(data) at time current_time with the IV drawn
FernetEncrypt(f, data, current_time, iv) ==
  LET basic_parts == BasicParts(f, data, current_time, iv)
  IN urlsafe_b64encode(basic_parts \o HMAC(f.signing_key, basic_parts))

\* Fernet._decrypt_data: padding removed from the decrypted ciphertext
FernetUnpad(p) ==
  IF ~p.ok THEN Err("InvalidToken")
  ELSE IF PKCS7Unpad(p.val).ok THEN PKCS7Unpad(p.val) ELSE Err("InvalidToken")

\* Fernet._decrypt_data: signature, then ciphertext
FernetDecryptData(f, data, n, signedPairs) ==
  IF ~HMACVerify(signedPairs, f.signing_key, Slice(data, 1, n - MAC_LEN),
                 Slice(data, n - MAC_LEN + 1, n))
  THEN Err("InvalidToken")
  ELSE FernetUnpad(CBCDecrypt(f.encryption_key, Slice(data, 10, 25),
                              Slice(data, 26, n - MAC_LEN)))

\* Fernet._get_unverified_token_data
FernetTokenData(f, d, signedPairs) ==
  IF ~d.ok THEN Err("InvalidToken")
  ELSE IF Len(d.val) = 0 \/ d.val[1] # VERSION THEN Err("InvalidToken")
  ELSE IF Len(d.val) < 9 THEN Err("InvalidToken")
  ELSE FernetDecryptData(f, d.val, Len(d.val), signedPairs)

\* Fernet.decrypt(token), ttl None: every failure is InvalidToken
FernetDecrypt(f, token, signedPairs) ==
  FernetTokenData(f, urlsafe_b64decode(token), signedPairs)

\* ------------------------------------ encryption_src/fernet/service.py
PBKDF2_LENGTH == 32
PBKDF2_ITERATIONS == 100000

\* a guard that tests only for None
InitNoneOnly(secret_key) ==
  IF secret_key.type = "NoneType"
  THEN Err("MissingEncryptionKeyError")
  ELSE Ok([secret_key |-> secret_key.v])

\* FernetEncryptionHelper.__init__(secret_key): a falsy secret (None, "")
\* raises MissingEncryptionKeyError, any other becomes self.secret_key
__init__(secret_key) ==
  IF secret_key.type = "NoneType" \/ Len(secret_key.v) = 0
  THEN Err("MissingEncryptionKeyError")
  ELSE Ok([secret_key |-> secret_key.v])

\* cipher.encrypt(plaintext.encode()).decode(), cipher being Fernet(key)
CipherEncrypt(cipher, data, current_time, iv) ==
  IF ~cipher.ok THEN cipher
  ELSE IF ~data.ok THEN data
  ELSE BytesDecode(FernetEncrypt(cipher.val, data.val, current_time, iv))

\* the str that bytes.decode() makes of the decrypted bytes
PlainDecode(r) == IF r.ok THEN BytesDecode(r.val) ELSE r

\* cipher.decrypt(encrypted_text.encode()).decode(), cipher being Fernet(key)
CipherDecrypt(cipher, token, signedPairs) ==
  IF ~cipher.ok THEN cipher
  ELSE IF ~token.ok THEN token
  ELSE PlainDecode(FernetDecrypt(cipher.val, token.val, signedPairs))

\* FernetEncryptionHelper._derive_key(salt)
DeriveFrom(password, salt) ==
  IF ~password.ok THEN password
  ELSE Ok(urlsafe_b64encode(
            PBKDF2HMAC(password.val, salt, PBKDF2_LENGTH, PBKDF2_ITERATIONS)))

\* a derivation that leaves the salt out
DeriveKeyUnsalted(self, salt) == DeriveFrom(StrEncode(self.secret_key), << >>)

_derive_key(self, salt) == DeriveFrom(StrEncode(self.secret_key), salt)

\* base64.urlsafe_b64decode(salt_b64.encode())
SaltDecode(b) == IF b.ok THEN urlsafe_b64decode(b.val) ELSE b

SaltBytes(salt_b64) == SaltDecode(StrEncode(salt_b64))

\* Fernet(self._derive_key(salt_bytes))
CipherOf(key) == IF key.ok THEN Fernet(key.val) ELSE key

UserCipher(self, salt_bytes) ==
  IF ~salt_bytes.ok THEN salt_bytes
  ELSE CipherOf(_derive_key(self, salt_bytes.val))

\* FernetEncryptionHelper.encrypt(plaintext)
encrypt(self, plaintext, current_time, iv) ==
  CipherEncrypt(Fernet(self.secret_key), StrEncode(plaintext), current_time, iv)

\* FernetEncryptionHelper.decrypt(encrypted_text)
decrypt(self, encrypted_text, signedPairs) ==
  CipherDecrypt(Fernet(self.secret_key), StrEncode(encrypted_text), signedPairs)

\* FernetEncryptionHelper.encrypt_for_user(plaintext, salt_b64)
encrypt_for_user(self, plaintext, salt_b64, current_time, iv) ==
  CipherEncrypt(UserCipher(self, SaltBytes(salt_b64)), StrEncode(plaintext),
                current_time, iv)

\* a decrypt_for_user that derives the key from the salt string's own bytes
DecryptForUserRawSalt(self, encrypted_text, salt_b64, signedPairs) ==
  CipherDecrypt(UserCipher(self, StrEncode(salt_b64)),
                StrEncode(encrypted_text), signedPairs)

\* FernetEncryptionHelper.decrypt_for_user(encrypted_text, salt_b64)
decrypt_for_user(self, encrypted_text, salt_b64, signedPairs) ==
  CipherDecrypt(UserCipher(self, SaltBytes(salt_b64)),
                StrEncode(encrypted_text), signedPairs)

\* --------------------------------------------------------------- inputs
NoneSecret == [type |-> "NoneType", v |-> << >>]
Str(v) == [type |-> "str", v |-> v]

\* "k1"
K1 == <<107, 49>>
\* Fernet.generate_key().decode(): url-safe base64 of 32 random bytes
GeneratedKey == urlsafe_b64encode([i \in 1..KEY_LEN |-> (53 * i + 11) % 256])

SecretInputs == {NoneSecret, Str(<< >>), Str(K1), Str(GeneratedKey)}

\* "super-secret"
SuperSecret == <<115, 117, 112, 101, 114, 45, 115, 101, 99, 114, 101, 116>>
\* the snowman U+2603
Snowman == <<9731>>

\* "", " ", "super-secret", the snowman, a lone surrogate U+D800, "0" * LongLen
Plaintexts == {<< >>, <<32>>, SuperSecret, Snowman, <<55296>>, Rep(48, LongLen)}

\* "YWI=" and "YWJ=" (both decode to b"ab"), "not-a-base64!!", "abc"
Salts ==
  { <<89, 87, 73, 61>>, <<89, 87, 74, 61>>,
    <<110, 111, 116, 45, 97, 45, 98, 97, 115, 101, 54, 52, 33, 33>>,
    <<97, 98, 99>> }

\* "invalid-data"
InvalidData == <<105, 110, 118, 97, 108, 105, 100, 45, 100, 97, 116, 97>>

\* "invalid-data" (decodes, wrong version byte), "gAAA" (right version byte,
\* too short), "a" (does not decode), a lone surrogate U+D800
Junk == <<InvalidData, <<103, 65, 65, 65>>, <<97>>, <<55296>>>>

\* ------------------------------------------------------------------ state
VARIABLES
  plaintext,   \* the plaintext this behaviour encrypts
  helper,      \* the FernetEncryptionHelper instance, once one is constructed
  now,         \* int(time.time())
  issued,      \* the tokens the helper returned, in order
  signed,      \* the (signing key, message) pairs HMAC tags were made for
  last,        \* the last call: its arguments and what it returned or raised
  encrypted_store, received_calls, _counter,   \* FakeEncryptionHelper's fields
  fakeIssued,  \* the tokens the fake returned, in order, with their plaintext
  fakeLast     \* the fake's last call and its return value

fernetVars == <<plaintext, helper, now, issued, signed, last>>
fakeVars == <<encrypted_store, received_calls, _counter, fakeIssued, fakeLast>>
vars == <<fernetVars, fakeVars>>

NoHelper == Err("NotConstructed")
NoCall == [op |-> "none", input |-> << >>, salt |-> << >>, result |-> Err("none")]
NoInput == [kind |-> "none", k |-> 0, pos |-> 0, ch |-> 0]

IsDecryptOp(op) == op \in {"decrypt", "decrypt_for_user"}

\* the string a decrypt call is given: an issued token, an issued token with
\* the character at one position replaced, or a string that is no token
Text(d) ==
  IF d.kind = "junk" THEN Junk[d.k]
  ELSE IF d.pos = 0 THEN issued[d.k].token
  ELSE [issued[d.k].token EXCEPT ![d.pos] = d.ch]

\* the positions at which a token is altered: one in every TamperStride, and
\* the last four
TamperPositions(t) ==
  {i \in 1..Len(t) : i % TamperStride = 1 \/ i > Len(t) - 4}

\* the characters put in place of c: the next one of the alphabet, "!", "="
TamperChars(c) ==
  { IF IsB64Data(UrlsafeToStd(c))
    THEN StdToUrlsafe(B64Char((B64Value(UrlsafeToStd(c)) + 1) % 64))
    ELSE 65, 33, PAD } \ {c}

Untampered == {[kind |-> "issued", k |-> k, pos |-> 0, ch |-> 0] : k \in DOMAIN issued}
JunkInputs == {[kind |-> "junk", k |-> j, pos |-> 0, ch |-> 0] : j \in DOMAIN Junk}
Tampered(k) ==
  UNION {{[kind |-> "issued", k |-> k, pos |-> i, ch |-> c] :
            c \in TamperChars(issued[k].token[i])} :
         i \in TamperPositions(issued[k].token)}

\* the pair HMAC signs when cipher encrypts data
Signs(cipher, data, current_time, iv) ==
  IF cipher.ok /\ data.ok
  THEN {<<cipher.val.signing_key, BasicParts(cipher.val, data.val, current_time, iv)>>}
  ELSE {}

FernetInit ==
  /\ plaintext \in Plaintexts
  /\ helper = NoHelper
  /\ now = StartTime
  /\ issued = << >>
  /\ signed = {}
  /\ last = NoCall

\* FernetEncryptionHelper(secret_key)
Construct(s) ==
  /\ ~helper.ok
  /\ helper' = (IF __init__(s).ok THEN __init__(s) ELSE helper)
  /\ last' = [op |-> "__init__", input |-> s, salt |-> << >>, result |-> __init__(s)]
  /\ UNCHANGED <<plaintext, now, issued, signed, fakeVars>>

\* a second passes on the clock that Fernet.encrypt reads
Tick ==
  /\ helper.ok
  /\ now < StartTime + MaxTime
  /\ ~IsDecryptOp(last.op)
  /\ now' = now + 1
  /\ UNCHANGED <<plaintext, helper, issued, signed, last, fakeVars>>

Returned(r, user, salt) ==
  IF r.ok
  THEN Append(issued, [token |-> r.val, user |-> user, salt |-> salt,
                       plaintext |-> plaintext])
  ELSE issued

\* helper.encrypt(plaintext)
Encrypt ==
  /\ helper.ok
  /\ ~IsDecryptOp(last.op)
  /\ Len(issued) < MaxTokens
  /\ LET iv == urandom(Len(issued) + 1)
     IN /\ issued' = Returned(encrypt(helper.val, plaintext, now, iv), FALSE, << >>)
        /\ signed' = signed \cup Signs(Fernet(helper.val.secret_key),
                                       StrEncode(plaintext), now, iv)
        /\ last' = [op |-> "encrypt", input |-> NoInput, salt |-> << >>,
                    result |-> encrypt(helper.val, plaintext, now, iv)]
  /\ UNCHANGED <<plaintext, helper, now, fakeVars>>

\* helper.encrypt_for_user(plaintext, salt)
EncryptForUser(salt) ==
  /\ helper.ok
  /\ ~IsDecryptOp(last.op)
  /\ Len(issued) < MaxTokens
  /\ LET iv == urandom(Len(issued) + 1)
     IN /\ issued' = Returned(encrypt_for_user(helper.val, plaintext, salt, now, iv),
                              TRUE, salt)
        /\ signed' = signed \cup Signs(UserCipher(helper.val, SaltBytes(salt)),
                                       StrEncode(plaintext), now, iv)
        /\ last' = [op |-> "encrypt_for_user", input |-> NoInput, salt |-> salt,
                    result |-> encrypt_for_user(helper.val, plaintext, salt, now, iv)]
  /\ UNCHANGED <<plaintext, helper, now, fakeVars>>

\* helper.decrypt(text)
Decrypt(d) ==
  /\ helper.ok
  /\ ~IsDecryptOp(last.op)
  /\ last' = [op |-> "decrypt", input |-> d, salt |-> << >>,
              result |-> decrypt(helper.val, Text(d), signed)]
  /\ UNCHANGED <<plaintext, helper, now, issued, signed, fakeVars>>

\* helper.decrypt_for_user(text, salt)
DecryptForUser(d, salt) ==
  /\ helper.ok
  /\ ~IsDecryptOp(last.op)
  /\ last' = [op |-> "decrypt_for_user", input |-> d, salt |-> salt,
              result |-> decrypt_for_user(helper.val, Text(d), salt, signed)]
  /\ UNCHANGED <<plaintext, helper, now, issued, signed, fakeVars>>

Next ==
  \/ \E s \in SecretInputs : Construct(s)
  \/ Tick
  \/ Encrypt
  \/ \E salt \in Salts : EncryptForUser(salt)
  \/ \E d \in Untampered \cup JunkInputs : Decrypt(d)
  \/ \E k \in DOMAIN issued : \E d \in Tampered(k) :
        ~issued[k].user /\ Decrypt(d)
  \/ \E d \in Untampered \cup JunkInputs : \E salt \in Salts : DecryptForUser(d, salt)
  \/ \E k \in DOMAIN issued : \E d \in Tampered(k) :
        issued[k].user /\ DecryptForUser(d, issued[k].salt)

\* ------------------- encryption_src/test_doubles/fake_encryption.py
\* "<unknown>"
UNKNOWN == <<60, 117, 110, 107, 110, 111, 119, 110, 62>>
\* "hello"
Hello == <<104, 101, 108, 108, 111>>
FakePlaintexts == {Hello, UNKNOWN}
\* "a" and "a-1"
FakeSalts == {<<97>>, <<97, 45, 49>>}
\* "not-issued", "enc-0", "enc-1", "userenc-a-1"
FakeJunk ==
  { <<110, 111, 116, 45, 105, 115, 115, 117, 101, 100>>,
    <<101, 110, 99, 45, 48>>, <<101, 110, 99, 45, 49>>,
    <<117, 115, 101, 114, 101, 110, 99, 45, 97, 45, 49>> }

\* str(n) of a counter
RECURSIVE Decimal(_)
Decimal(n) == IF n < 10 THEN <<48 + n>> ELSE Append(Decimal(n \div 10), 48 + (n % 10))

\* f"enc-{self._counter}"
EncToken(counter) == <<101, 110, 99, 45>> \o Decimal(counter)

\* a token that leaves the counter out
UserEncTokenNoCounter(salt_b64, counter) ==
  <<117, 115, 101, 114, 101, 110, 99, 45>> \o salt_b64

\* f"userenc-{salt_b64}-{self._counter}"
UserEncToken(salt_b64, counter) ==
  <<117, 115, 101, 114, 101, 110, 99, 45>> \o salt_b64 \o <<45>> \o Decimal(counter)

\* self.encrypted_store[token] = plaintext
StorePut(store, token, value) ==
  [t \in DOMAIN store \cup {token} |-> IF t = token THEN value ELSE store[t]]

\* self.encrypted_store.get(encrypted_text, "<unknown>")
StoreGet(store, encrypted_text) ==
  IF encrypted_text \in DOMAIN store THEN store[encrypted_text] ELSE UNKNOWN

\* self.received_calls.clear()
Cleared(calls) == << >>

\* FakeEncryptionHelper.called_with(method, *args)
called_with(calls, call) == \E i \in DOMAIN calls : calls[i] = call

FakeTexts == FakeJunk \cup {fakeIssued[k].token : k \in DOMAIN fakeIssued}

FernetIdle ==
  /\ plaintext = << >>
  /\ helper = NoHelper
  /\ now = StartTime
  /\ issued = << >>
  /\ signed = {}
  /\ last = NoCall

\* FakeEncryptionHelper()
FakeInit ==
  /\ encrypted_store = << >>
  /\ received_calls = << >>
  /\ _counter = 0
  /\ fakeIssued = << >>
  /\ fakeLast = NoCall

\* fake.encrypt(p)
FakeEncrypt(p) ==
  /\ Len(received_calls) < MaxFakeCalls
  /\ _counter < MaxFakeTokens
  /\ received_calls' = Append(received_calls, <<"encrypt", p>>)
  /\ _counter' = _counter + 1
  /\ encrypted_store' = StorePut(encrypted_store, EncToken(_counter), p)
  /\ fakeIssued' = Append(fakeIssued, [token |-> EncToken(_counter), plaintext |-> p])
  /\ fakeLast' = [op |-> "encrypt", input |-> p, salt |-> << >>,
                  result |-> EncToken(_counter)]
  /\ UNCHANGED fernetVars

\* fake.decrypt(t)
FakeDecrypt(t) ==
  /\ Len(received_calls) < MaxFakeCalls
  /\ received_calls' = Append(received_calls, <<"decrypt", t>>)
  /\ fakeLast' = [op |-> "decrypt", input |-> t, salt |-> << >>,
                  result |-> StoreGet(encrypted_store, t)]
  /\ UNCHANGED <<encrypted_store, _counter, fakeIssued, fernetVars>>

\* fake.encrypt_for_user(p, salt)
FakeEncryptForUser(p, salt) ==
  /\ Len(received_calls) < MaxFakeCalls
  /\ _counter < MaxFakeTokens
  /\ received_calls' = Append(received_calls, <<"encrypt_for_user", p, salt>>)
  /\ _counter' = _counter + 1
  /\ encrypted_store' = StorePut(encrypted_store, UserEncToken(salt, _counter), p)
  /\ fakeIssued' = Append(fakeIssued, [token |-> UserEncToken(salt, _counter),
                                       plaintext |-> p])
  /\ fakeLast' = [op |-> "encrypt_for_user", input |-> p, salt |-> salt,
                  result |-> UserEncToken(salt, _counter)]
  /\ UNCHANGED fernetVars

\* fake.decrypt_for_user(t, salt)
FakeDecryptForUser(t, salt) ==
  /\ Len(received_calls) < MaxFakeCalls
  /\ received_calls' = Append(received_calls, <<"decrypt_for_user", t, salt>>)
  /\ fakeLast' = [op |-> "decrypt_for_user", input |-> t, salt |-> salt,
                  result |-> StoreGet(encrypted_store, t)]
  /\ UNCHANGED <<encrypted_store, _counter, fakeIssued, fernetVars>>

\* fake.clear_calls()
FakeClearCalls ==
  /\ received_calls' = Cleared(received_calls)
  /\ fakeLast' = [op |-> "clear_calls", input |-> << >>, salt |-> << >>,
                  result |-> << >>]
  /\ UNCHANGED <<encrypted_store, _counter, fakeIssued, fernetVars>>

FakeNext ==
  \/ \E p \in FakePlaintexts : FakeEncrypt(p)
  \/ \E t \in FakeTexts : FakeDecrypt(t)
  \/ \E p \in FakePlaintexts : \E salt \in FakeSalts : FakeEncryptForUser(p, salt)
  \/ \E t \in FakeTexts : \E salt \in FakeSalts : FakeDecryptForUser(t, salt)
  \/ FakeClearCalls

Init == FernetInit /\ FakeInit

Spec == Init /\ [][Next]_vars

FakeStart == FernetIdle /\ FakeInit

FakeSpec == FakeStart /\ [][FakeNext]_vars

\* ------------------------------------------------------------- the claims
Encodable(str) == ~\E i \in DOMAIN str : IsSurrogate(str[i])

\* a well-formed url-safe base64 string: characters of the url-safe alphabet,
\* a multiple of 4 long, "=" only as the last one or two characters
IsUrlsafeB64(str) ==
  /\ Len(str) % 4 = 0
  /\ \A i \in DOMAIN str :
       \/ IsB64Data(UrlsafeToStd(str[i])) /\ str[i] \notin {43, 47}
       \/ str[i] = PAD /\ i > Len(str) - 2 /\ i > 1
          /\ \A j \in (i + 1)..Len(str) : str[j] = PAD

\* the last call was a decrypt of the token issued k-th, as it was returned
DecryptsIssued(op, k) ==
  /\ last.op = op
  /\ last.input.kind = "issued"
  /\ last.input.pos = 0
  /\ last.input.k = k

\* C1: with a helper constructed with a Secret, encrypt(P) returns a token
\* for every plaintext P (stated here for those UTF-8 can encode: the empty
\* string, whitespace, multi-byte Unicode, more than one cipher block), and
\* decrypt of that token returns exactly P.
C1_FixedKeyRoundTrip ==
  /\ last.op = "encrypt" /\ Encodable(plaintext) => last.result.ok
  /\ \A k \in DOMAIN issued :
       DecryptsIssued("decrypt", k) /\ ~issued[k].user
         => last.result = Ok(issued[k].plaintext)

\* C2, as claimed: for every plaintext P and every valid base64 salt S,
\* encrypt_for_user(P, S) returns a token and decrypt_for_user of it with S
\* returns exactly P.
C2_AnyPlaintextRoundTrip ==
  /\ last.op = "encrypt_for_user" /\ IsUrlsafeB64(last.salt) => last.result.ok
  /\ \A k \in DOMAIN issued :
       DecryptsIssued("decrypt_for_user", k) /\ issued[k].user
       /\ issued[k].salt = last.salt
         => last.result = Ok(issued[k].plaintext)

\* C2, amended: for every plaintext P that UTF-8 can encode (no lone
\* surrogate) and every valid base64 salt S, encrypt_for_user(P, S) returns a
\* token and decrypt_for_user of it with S returns exactly P.
C2_PerSubjectRoundTrip ==
  /\ last.op = "encrypt_for_user" /\ IsUrlsafeB64(last.salt)
     /\ Encodable(plaintext) => last.result.ok
  /\ \A k \in DOMAIN issued :
       DecryptsIssued("decrypt_for_user", k) /\ issued[k].user
       /\ issued[k].salt = last.salt
         => last.result = Ok(issued[k].plaintext)

\* a token issued for the snowman under a salt was decrypted under that salt
C2_Witness ==
  \E k \in DOMAIN issued :
    /\ DecryptsIssued("decrypt_for_user", k)
    /\ issued[k].user /\ issued[k].salt = last.salt
    /\ issued[k].plaintext = Snowman
    /\ last.result = Ok(Snowman)

\* C3, as claimed: a token issued under the salt string S1 fails to decrypt
\* under every other salt string S2, with the invalid-token error.
C3_AnyOtherSaltString ==
  \A k \in DOMAIN issued :
    DecryptsIssued("decrypt_for_user", k) /\ issued[k].user
    /\ issued[k].salt # last.salt
      => last.result = Err("InvalidToken")

\* C3, amended: a token issued under S1 fails to decrypt, with the
\* invalid-token error, under every salt string S2 that decodes to other
\* bytes than S1; it decrypts under exactly one salt byte string.
C3_SaltSensitivity ==
  \A k \in DOMAIN issued :
    DecryptsIssued("decrypt_for_user", k) /\ issued[k].user
      => /\ SaltBytes(last.salt).ok
            /\ SaltBytes(last.salt) # SaltBytes(issued[k].salt)
              => last.result = Err("InvalidToken")
         /\ last.result.ok => SaltBytes(last.salt) = SaltBytes(issued[k].salt)

\* a token issued under "YWI=" was refused under "not-a-base64!!", which
\* decodes to other bytes
C3_Witness ==
  \E k \in DOMAIN issued :
    /\ DecryptsIssued("decrypt_for_user", k)
    /\ issued[k].user
    /\ issued[k].salt = <<89, 87, 73, 61>>
    /\ SaltBytes(last.salt).ok
    /\ SaltBytes(last.salt) # SaltBytes(issued[k].salt)
    /\ last.result = Err("InvalidToken")

\* C4: with a salt string that is not valid base64, encrypt_for_user and
\* decrypt_for_user fail with the error of the salt's decoding; no key is
\* derived and no token returned.
C4_MalformedSaltRejected ==
  last.op \in {"encrypt_for_user", "decrypt_for_user"} /\ ~IsUrlsafeB64(last.salt)
    => last.result = Err("binascii.Error")

\* C5: a helper constructed with any non-empty Secret ("k1") encrypts
\* "super-secret" to a token, its decrypt("invalid-data") fails with the
\* invalid-token error, and no encrypt or decrypt call fails over the form of
\* the Secret.
C5_AnyNonEmptySecretWorks ==
  /\ last.op = "encrypt" /\ plaintext = SuperSecret => last.result.ok
  /\ last.op = "decrypt" /\ Text(last.input) = InvalidData
       => last.result = Err("InvalidToken")
  /\ last.op \in {"encrypt", "decrypt"} => last.result # Err("ValueError")

\* C6: constructing the helper with None or "" raises
\* MissingEncryptionKeyError and leaves no instance; every instance holds a
\* non-empty secret, and every call is made on such an instance.
C6_ConstructionGuard ==
  /\ last.op = "__init__" /\ (last.input.type = "NoneType" \/ last.input.v = << >>)
       => last.result = Err("MissingEncryptionKeyError") /\ ~helper.ok
  /\ helper.ok => Len(helper.val.secret_key) > 0
  /\ last.op \in {"encrypt", "decrypt", "encrypt_for_user", "decrypt_for_user"}
       => helper.ok

\* the helper was constructed with "" and the constructor raised
C6_Witness ==
  /\ last.op = "__init__"
  /\ last.input = Str(<< >>)
  /\ last.result = Err("MissingEncryptionKeyError")
  /\ ~helper.ok

\* C7: a token with the character at one position replaced by another is
\* never decrypted: decrypt, and decrypt_for_user with the salt of the token,
\* fail.
C7_TamperDetection ==
  IsDecryptOp(last.op) /\ last.input.kind = "issued" /\ last.input.pos # 0
    => ~last.result.ok

\* C8: decrypt either returns the plaintext of a token issued under the
\* helper's key or fails with the invalid-token error, never with another.
C8_SingleOpaqueError ==
  last.op = "decrypt"
    => \/ last.result = Err("InvalidToken")
       \/ /\ last.result.ok
          /\ last.input.kind = "issued"
          /\ ~issued[last.input.k].user
          /\ last.result.val = issued[last.input.k].plaintext

\* C9: every encrypt call, and every encrypt_for_user call with a valid salt,
\* returns a token (stated for the plaintexts UTF-8 can encode) that differs
\* from the tokens returned before, also for the same plaintext and salt,
\* and each of them decrypts to the plaintext.
C9_DistinctTokens ==
  /\ last.op = "encrypt" /\ Encodable(plaintext) => last.result.ok
  /\ last.op = "encrypt_for_user" /\ IsUrlsafeB64(last.salt)
     /\ Encodable(plaintext) => last.result.ok
  /\ \A i, j \in DOMAIN issued : i # j => issued[i].token # issued[j].token
  /\ \A k \in DOMAIN issued :
       /\ DecryptsIssued("decrypt", k) /\ ~issued[k].user
            => last.result = Ok(issued[k].plaintext)
       /\ DecryptsIssued("decrypt_for_user", k) /\ issued[k].user
          /\ issued[k].salt = last.salt
            => last.result = Ok(issued[k].plaintext)

\* C10: the fake's tokens are pairwise distinct; in every state, also after
\* clear_calls, each issued token is stored with the plaintext of the call
\* that issued it; decrypt and decrypt_for_user return that plaintext, and
\* "<unknown>" for a string that was not issued; clear_calls empties the
\* call history.
C10_FakeLookup ==
  /\ \A i, j \in DOMAIN fakeIssued :
       i # j => fakeIssued[i].token # fakeIssued[j].token
  /\ \A k \in DOMAIN fakeIssued :
       /\ fakeIssued[k].token \in DOMAIN encrypted_store
       /\ encrypted_store[fakeIssued[k].token] = fakeIssued[k].plaintext
  /\ IsDecryptOp(fakeLast.op)
       => /\ \A k \in DOMAIN fakeIssued :
               fakeIssued[k].token = fakeLast.input
                 => fakeLast.result = fakeIssued[k].plaintext
          /\ (\A k \in DOMAIN fakeIssued : fakeIssued[k].token # fakeLast.input)
               => fakeLast.result = UNKNOWN
  /\ fakeLast.op = "clear_calls" => received_calls = << >>

\* two tokens were issued for one salt, the history was cleared, and the
\* decrypt that followed returned "hello"
C10_Witness ==
  /\ Len(fakeIssued) = 2
  /\ received_calls = <<<<"decrypt_for_user", fakeLast.input, fakeLast.salt>>>>
  /\ fakeLast.op = "decrypt_for_user"
  /\ fakeLast.result = Hello
  /\ \E k \in DOMAIN fakeIssued : fakeIssued[k].token = fakeLast.input
====
